---- MODULE Spec2Model ----
(***************************************************************************)
(* Model of the voice-agent server: the per-connection conversation       *)
(* pipeline of app.py (websocket_endpoint), the session registry          *)
(* (SessionManager), the conversation history kept by LanguageModel, and  *)
(* the /health endpoint.                                                   *)
(*                                                                         *)
(* One handler task runs per connection.  A task only gives up control at  *)
(* an await, so each action below is the code that runs from one await's   *)
(* completion to the next await.                                           *)
(***************************************************************************)
EXTENDS Integers, Sequences, FiniteSets, TLC

\* ------------------------------------------------------------------ bounds
MaxConns == 2           \* connections (handler tasks) ever accepted
MaxFrames == 2          \* frames a client sends on one connection
MaxTime == 4            \* clock horizon, in ticks
PipeMaxTime == 2        \* clock horizon of SpecPipe
RegFrames == 1          \* frames per connection in SpecRegistry
RegConns == 1           \* connections in SpecRegistry
MaxExchanges == 6       \* frames on the one connection of SpecHistory
IsoConns == 2           \* connections in SpecIsolation
IsoFrames == 1          \* frames per connection in SpecIsolation
ActConns == 2          \* connections in SpecActive
OpsTime == 3            \* clock horizon of SpecRegistryOps

\* ------------------------------------------------------- program constants
RecvTimeout == 1        \* app.py:95  timeout=30.0 s; one tick is 30 s
TicksPerMinute == 2     \* session.py:39  timedelta(minutes=...), in ticks
HistoryCap == 10        \* llm.py:73  len(history) > 10
SampleWidth == 4        \* audio.py:21  dtype=np.float32
WS_1000_NORMAL_CLOSURE == 1000
WS_1011_INTERNAL_ERROR == 1011

Conns == 1 .. MaxConns
Ids == 1 .. MaxConns                    \* tokens uuid4 can return
FrameLens == {4, 6, 8}                  \* byte lengths of incoming frames
Buffers == BOOLEAN                      \* audio_data is a writable buffer, or bytes
Transcripts == { [text |-> "hel",   is_final |-> FALSE],
                 [text |-> "hello", is_final |-> TRUE],
                 [text |-> "bye",   is_final |-> TRUE] }
Replies == {"hi there", "ok"}
Takes == {1, 2}                         \* renderings synthesis may return
MaxAges == {0, 1}                       \* max_age_minutes given to a sweep

None == "none"
EmptyMap == [x \in {} |-> x]

\* error_msg prefixes built by the stage wrappers of websocket_endpoint
MsgAudio == "Audio processing failed"
MsgSpeech == "Speech recognition failed"
MsgLLM == "Language model processing failed"
MsgVoice == "Voice synthesis failed"
MsgDisconnect == "WebSocketDisconnect"
MsgTransport == "transport error"
StageMsgs == {MsgAudio, MsgSpeech, MsgLLM, MsgVoice}

\* the exception classes the stage wrappers raise
StageErrorTypes ==
    {"AudioProcessingError", "TranscriptionError", "LLMError", "VoiceSynthesisError"}

VARIABLES
    now,                    \* the clock datetime.now() reads, in ticks
    channels,               \* config["audio"]["channels"]
    startup,                \* position of startup_event
    speech_is_initialized,  \* SpeechRecognizer.is_initialized
    llm_is_initialized,     \* LanguageModel.is_initialized
    voice_is_initialized,   \* VoiceSynthesizer.is_initialized
    sessions,               \* SessionManager.sessions
    conversation_history,   \* LanguageModel.conversation_history
    issued,                 \* tokens uuid4 has returned so far
    pc,                     \* per connection: the await the handler is at
    session_id,             \* per connection: local session_id
    transcript,             \* per connection: local transcript
    response,               \* per connection: local response
    audio_response,         \* per connection: local audio_response
    error_msg,              \* per connection: local error_msg
    application_state,      \* per connection: WebSocket.application_state
    client_connected,       \* per connection: the client end is still there
    client_rx,              \* per connection: messages delivered to the client
    wait_start,             \* per connection: when the current receive began
    frames,                 \* per connection: frames accepted so far
    sent_after_close,       \* per connection: bytes or json were sent after the client left
    path,                   \* per connection: how the run left the loop
    ended_at,               \* per session id: when end_session marked it
    health                  \* last result of health_check

vars == << now, channels, startup, speech_is_initialized, llm_is_initialized,
           voice_is_initialized, sessions, conversation_history, issued, pc,
           session_id, transcript, response, audio_response, error_msg,
           application_state, client_connected, client_rx, wait_start, frames,
           sent_after_close, path, ended_at, health >>

serverVars == << startup, speech_is_initialized, llm_is_initialized,
                 voice_is_initialized >>
localVars == << transcript, response, audio_response, error_msg >>
wireVars == << application_state, client_connected, client_rx, sent_after_close >>


\* ------------------------------------------------------------ pure parts

\* AudioProcessor.process raises: np.frombuffer needs whole float32 samples,
\* reshape(-1, 2) needs an even number of them when channels == 2, and
\* _reduce_noise assigns into the array np.frombuffer returned, which shares the
\* memory of audio_data and is read-only when audio_data is an immutable bytes
\* object.
process_raises(nbytes, ch, writeable) ==
    \/ nbytes % SampleWidth # 0
    \/ ch = 2 /\ (nbytes \div SampleWidth) % 2 # 0
    \/ ~writeable

\* str(uuid.uuid4()): a token not returned before.
uuid4(used) == CHOOSE id \in Ids \ used : \A o \in Ids \ used : id <= o

create_session(ss, id, t) ==
    (id :> [created_at |-> t, last_activity |-> t, is_active |-> TRUE]) @@ ss

\* a touch that creates the entry it does not find
update_session_creates(ss, id, t) ==
    IF id \in DOMAIN ss
    THEN [ss EXCEPT ![id].last_activity = t]
    ELSE create_session(ss, id, t)

update_session(ss, id, t) ==
    IF id \in DOMAIN ss THEN [ss EXCEPT ![id].last_activity = t] ELSE ss

\* end_session that forgets to clear the flag
end_session_keeps_active(ss, id) == ss

end_session(ss, id) ==
    IF id \in DOMAIN ss THEN [ss EXCEPT ![id].is_active = FALSE] ELSE ss

\* a sweep that goes by age alone
sessions_to_remove_by_age(ss, max_age_minutes, t) ==
    { id \in DOMAIN ss :
        t - ss[id].last_activity > max_age_minutes * TicksPerMinute }

sessions_to_remove(ss, max_age_minutes, t) ==
    { id \in DOMAIN ss :
        /\ ~ss[id].is_active
        /\ t - ss[id].last_activity > max_age_minutes * TicksPerMinute }

cleanup_inactive_sessions(ss, max_age_minutes, t) ==
    [ id \in DOMAIN ss \ sessions_to_remove(ss, max_age_minutes, t) |-> ss[id] ]

\* a count of every session the registry holds
get_active_sessions_count_all(ss) ==
    Cardinality(DOMAIN ss)

get_active_sessions_count(ss) ==
    Cardinality({ id \in DOMAIN ss : ss[id].is_active })

\* conversation_history.get(session_id, [])
get_history(ch, id) == IF id \in DOMAIN ch THEN ch[id] ELSE << >>

\* trimming that keeps the first turns: history[:10]
extend_history_keeps_first(h, user_input, response_text) ==
    LET e == h \o << [role |-> "user", content |-> user_input],
                     [role |-> "assistant", content |-> response_text] >>
    IN  IF Len(e) > HistoryCap THEN SubSeq(e, 1, HistoryCap) ELSE e

\* history.extend([...]); if len(history) > 10: history = history[-10:]
extend_history(h, user_input, response_text) ==
    LET e == h \o << [role |-> "user", content |-> user_input],
                     [role |-> "assistant", content |-> response_text] >>
    IN  IF Len(e) > HistoryCap
        THEN SubSeq(e, Len(e) - HistoryCap + 1, Len(e))
        ELSE e

\* one history shared by every session
store_history_shared(ch, id, h) == [k \in DOMAIN ch \cup {id} |-> h]

\* self.conversation_history[session_id] = history
store_history(ch, id, h) == (id :> h) @@ ch

provider_status(is_initialized) ==
    IF is_initialized THEN "healthy" ELSE "not_initialized"

\* SpeechRecognizer.health_check, by the collaborator contract
speech_health_check(is_initialized) == [status |-> provider_status(is_initialized)]

\* LanguageModel.health_check
llm_health_check(is_initialized) ==
    [status |-> provider_status(is_initialized), provider |-> "openai"]

\* VoiceSynthesizer.health_check
voice_health_check(is_initialized) ==
    [status |-> provider_status(is_initialized), provider |-> "elevenlabs"]

components_status(speech, llm, voice, ss) ==
    [ k \in {"speech_recognition", "language_model", "voice_synthesis", "sessions"} |->
        CASE k = "speech_recognition" -> speech_health_check(speech)
          [] k = "language_model"     -> llm_health_check(llm)
          [] k = "voice_synthesis"    -> voice_health_check(voice)
          [] k = "sessions"           -> [active_sessions |-> get_active_sessions_count(ss)] ]

\* any(...) in place of all(...)
any_healthy(comps) ==
    \E k \in DOMAIN comps :
        "status" \in DOMAIN comps[k] /\ comps[k]["status"] = "healthy"

\* all(status.get("status") == "healthy" for ... if "status" in status)
all_healthy(comps) ==
    \A k \in DOMAIN comps :
        "status" \in DOMAIN comps[k] => comps[k]["status"] = "healthy"

health_check(speech, llm, voice, ss) ==
    LET comps == components_status(speech, llm, voice, ss)
    IN  [ status |-> IF all_healthy(comps) THEN "healthy" ELSE "degraded",
          components |-> comps ]

\* ------------------------------------------------------------ messages
BytesMsg(b) == [kind |-> "bytes", audio |-> b]
ErrorMsg(m) == [kind |-> "json", error |-> m]
CloseMsg(code) == [kind |-> "close", code |-> code]

\* audio bytes a synthesis provider can return for a text
Audio(text, take) == [take |-> take, speaks |-> text]
AudioFor(text) == { Audio(text, k) : k \in Takes }
NoAudio == Audio("", 0)
Speakable == Replies \cup { t.text : t \in Transcripts }

NoTranscript == [text |-> "", is_final |-> FALSE]
NoHealth == [status |-> None, components |-> EmptyMap]

\* module load: the components are constructed, nothing has connected yet
InitCommon ==
    /\ now = 0
    /\ channels \in {1, 2}
    /\ sessions = EmptyMap
    /\ conversation_history = EmptyMap
    /\ issued = {}
    /\ pc = [c \in Conns |-> "init"]
    /\ session_id = [c \in Conns |-> 0]
    /\ transcript = [c \in Conns |-> NoTranscript]
    /\ response = [c \in Conns |-> ""]
    /\ audio_response = [c \in Conns |-> NoAudio]
    /\ error_msg = [c \in Conns |-> ""]
    /\ application_state = [c \in Conns |-> "CONNECTING"]
    /\ client_connected = [c \in Conns |-> TRUE]
    /\ client_rx = [c \in Conns |-> << >>]
    /\ wait_start = [c \in Conns |-> 0]
    /\ frames = [c \in Conns |-> 0]
    /\ sent_after_close = [c \in Conns |-> FALSE]
    /\ path = [c \in Conns |-> None]
    /\ ended_at = EmptyMap
    /\ health = NoHealth

\* before startup_event has run
Init ==
    /\ InitCommon
    /\ startup = "speech"
    /\ speech_is_initialized = FALSE
    /\ llm_is_initialized = FALSE
    /\ voice_is_initialized = FALSE

\* after startup_event has completed
InitServing ==
    /\ InitCommon
    /\ startup = "done"
    /\ speech_is_initialized = TRUE
    /\ llm_is_initialized = TRUE
    /\ voice_is_initialized = TRUE


\* ------------------------------------------------------ handler fragments

Goto(c, label) == pc' = [pc EXCEPT ![c] = label]

\* one timer for the whole session, started at the first receive only
AwaitFrame_session_timer(c) ==
    /\ Goto(c, "recv")
    /\ wait_start' = [wait_start EXCEPT ![c] = IF pc[c] = "init" THEN now ELSE @]

\* back to the top of the while loop: the next wait_for(receive_bytes()) starts
AwaitFrame(c) ==
    /\ Goto(c, "recv")
    /\ wait_start' = [wait_start EXCEPT ![c] = now]

\* an exception reaches "except Exception as e": error_msg = str(e), then the
\* handler awaits send_json
Raise(c, msg, why) ==
    /\ Goto(c, "err_send")
    /\ error_msg' = [error_msg EXCEPT ![c] = msg]
    /\ path' = [path EXCEPT ![c] = IF path[c] = None THEN why ELSE path[c]]

\* the transport hands message m to the client
Deliver(c, m) == client_rx' = [client_rx EXCEPT ![c] = Append(@, m)]

\* finally: session_manager.end_session(session_id), then await websocket.close()
Finally(c) ==
    /\ sessions' = end_session(sessions, session_id[c])
    /\ ended_at' = IF session_id[c] \in DOMAIN sessions
                   THEN (session_id[c] :> now) @@ ended_at
                   ELSE ended_at
    /\ Goto(c, "final_close")

\* ----------------------------------------------------------------- actions

StartupSpeech ==
    /\ startup = "speech"
    /\ speech_is_initialized' = TRUE
    /\ startup' = "llm"
    /\ UNCHANGED << now, channels, llm_is_initialized, voice_is_initialized,
                    sessions, conversation_history, issued, pc, session_id,
                    localVars, wireVars, wait_start, frames, path, ended_at,
                    health >>

StartupLLM ==
    /\ startup = "llm"
    /\ llm_is_initialized' = TRUE
    /\ startup' = "voice"
    /\ UNCHANGED << now, channels, speech_is_initialized, voice_is_initialized,
                    sessions, conversation_history, issued, pc, session_id,
                    localVars, wireVars, wait_start, frames, path, ended_at,
                    health >>

StartupVoice ==
    /\ startup = "voice"
    /\ voice_is_initialized' = TRUE
    /\ startup' = "done"
    /\ UNCHANGED << now, channels, speech_is_initialized, llm_is_initialized,
                    sessions, conversation_history, issued, pc, session_id,
                    localVars, wireVars, wait_start, frames, path, ended_at,
                    health >>

\* the clock advances; a receive whose timeout is due is woken first
Tick(horizon) ==
    /\ now < horizon
    /\ \A c \in Conns : pc[c] = "recv" => now - wait_start[c] < RecvTimeout
    /\ now' = now + 1
    /\ UNCHANGED << channels, serverVars, sessions, conversation_history, issued,
                    pc, session_id, localVars, wireVars, wait_start, frames,
                    path, ended_at, health >>

\* await websocket.accept(); session_id = session_manager.create_session()
Accept(c) ==
    /\ pc[c] = "init"
    /\ \A d \in Conns : d < c => pc[d] # "init"
    /\ LET id == uuid4(issued)
       IN  /\ issued' = issued \cup {id}
           /\ sessions' = create_session(sessions, id, now)
           /\ session_id' = [session_id EXCEPT ![c] = id]
    /\ application_state' = [application_state EXCEPT ![c] = "CONNECTED"]
    /\ AwaitFrame(c)
    /\ UNCHANGED << now, channels, serverVars, conversation_history, localVars,
                    client_connected, client_rx, sent_after_close, frames, path,
                    ended_at, health >>

\* the client goes away (closes, or the network drops)
ClientDisconnect(c) ==
    /\ application_state[c] = "CONNECTED"
    /\ client_connected[c]
    /\ client_connected' = [client_connected EXCEPT ![c] = FALSE]
    /\ UNCHANGED << now, channels, serverVars, sessions, conversation_history,
                    issued, pc, session_id, localVars, application_state,
                    client_rx, sent_after_close, wait_start, frames, path,
                    ended_at, health >>

\* a receive that does not wait for the reply of the frame before to be sent
ReceiveFrame_overlapping(c, nbytes) ==
    /\ pc[c] \in {"recv", "send"}
    /\ client_connected[c]
    /\ frames' = [frames EXCEPT ![c] = @ + 1]
    /\ \E writeable \in Buffers :
          IF process_raises(nbytes, channels, writeable)
          THEN Raise(c, MsgAudio, "stage")
          ELSE Goto(c, "transcribe") /\ UNCHANGED << error_msg, path >>
    /\ UNCHANGED << now, channels, serverVars, sessions, conversation_history,
                    issued, session_id, transcript, response, audio_response,
                    wireVars, wait_start, ended_at, health >>

\* receive_bytes() returns a frame of nbytes bytes; audio_processor.process runs
\* and the handler awaits speech_recognizer.transcribe
ReceiveFrame(c, nbytes) ==
    /\ pc[c] = "recv"
    /\ client_connected[c]
    /\ frames' = [frames EXCEPT ![c] = @ + 1]
    /\ \E writeable \in Buffers :
          IF process_raises(nbytes, channels, writeable)
          THEN Raise(c, MsgAudio, "stage")
          ELSE Goto(c, "transcribe") /\ UNCHANGED << error_msg, path >>
    /\ UNCHANGED << now, channels, serverVars, sessions, conversation_history,
                    issued, session_id, transcript, response, audio_response,
                    wireVars, wait_start, ended_at, health >>

\* a timeout that is not caught by the inner handler and reaches
\* "except Exception"
ReceiveTimeout_uncaught(c) ==
    /\ pc[c] = "recv"
    /\ now - wait_start[c] >= RecvTimeout
    /\ Raise(c, "TimeoutError", "timeout")
    /\ UNCHANGED << now, channels, serverVars, sessions, conversation_history,
                    issued, session_id, transcript, response, audio_response,
                    wireVars, wait_start, frames, ended_at, health >>

\* wait_for raises asyncio.TimeoutError; the handler awaits close(code=1000)
ReceiveTimeout(c) ==
    /\ pc[c] = "recv"
    /\ now - wait_start[c] >= RecvTimeout
    /\ Goto(c, "timeout_close")
    /\ path' = [path EXCEPT ![c] = "timeout"]
    /\ UNCHANGED << now, channels, serverVars, sessions, conversation_history,
                    issued, session_id, localVars, wireVars, wait_start, frames,
                    ended_at, health >>

\* receive_bytes() raises WebSocketDisconnect
ReceiveDisconnect(c) ==
    /\ pc[c] = "recv"
    /\ ~client_connected[c]
    /\ Raise(c, MsgDisconnect, "disconnect")
    /\ UNCHANGED << now, channels, serverVars, sessions, conversation_history,
                    issued, session_id, transcript, response, audio_response,
                    wireVars, wait_start, frames, ended_at, health >>


\* speech_recognizer.transcribe raises: wrapped as TranscriptionError
TranscribeRaises(c) ==
    /\ pc[c] = "transcribe"
    /\ Raise(c, MsgSpeech, "stage")
    /\ UNCHANGED << now, channels, serverVars, sessions, conversation_history,
                    issued, session_id, transcript, response, audio_response,
                    wireVars, wait_start, frames, ended_at, health >>

\* a gate that lets every transcript through
is_final_ignored(t) == TRUE

\* if transcript.is_final:
is_final(t) == t.is_final

\* generate_response(transcript.text, session_id=session_id)
generate_input(c) == transcript[c].text

\* synthesizing the transcript instead of the reply
synth_input_transcript(c) == transcript[c].text

\* synthesize(response)
synth_input(c) == response[c]

\* speech_recognizer.transcribe returns t.  A final transcript goes on to
\* language_model.generate_response, which raises at once when the model is not
\* initialized; any other transcript only touches the session.
TranscribeReturns(c, t) ==
    /\ pc[c] = "transcribe"
    /\ transcript' = [transcript EXCEPT ![c] = t]
    /\ IF is_final(t)
       THEN /\ IF llm_is_initialized
               THEN Goto(c, "generate") /\ UNCHANGED << error_msg, path >>
               ELSE Raise(c, MsgLLM, "stage")
            /\ UNCHANGED << sessions, wait_start >>
       ELSE /\ sessions' = update_session(sessions, session_id[c], now)
            /\ AwaitFrame(c)
            /\ UNCHANGED << error_msg, path >>
    /\ UNCHANGED << now, channels, serverVars, conversation_history, issued,
                    session_id, response, audio_response, wireVars, frames,
                    ended_at, health >>

\* openai.ChatCompletion.acreate raises: wrapped as LLMError
GenerateRaises(c) ==
    /\ pc[c] = "generate"
    /\ Raise(c, MsgLLM, "stage")
    /\ UNCHANGED << now, channels, serverVars, sessions, conversation_history,
                    issued, session_id, transcript, response, audio_response,
                    wireVars, wait_start, frames, ended_at, health >>

\* _generate_openai_response gets the reply r, records the exchange in
\* conversation_history and returns; the handler goes on to
\* voice_synthesizer.synthesize, which raises at once when not initialized.
GenerateReturns(c, r) ==
    /\ pc[c] = "generate"
    /\ response' = [response EXCEPT ![c] = r]
    /\ conversation_history' =
          store_history(conversation_history, session_id[c],
              extend_history(get_history(conversation_history, session_id[c]),
                             generate_input(c), r))
    /\ IF voice_is_initialized
       THEN Goto(c, "synth") /\ UNCHANGED << error_msg, path >>
       ELSE Raise(c, MsgVoice, "stage")
    /\ UNCHANGED << now, channels, serverVars, sessions, issued, session_id,
                    transcript, audio_response, wireVars, wait_start, frames,
                    ended_at, health >>

\* elevenlabs.generate raises: wrapped as VoiceSynthesisError
SynthRaises(c) ==
    /\ pc[c] = "synth"
    /\ Raise(c, MsgVoice, "stage")
    /\ UNCHANGED << now, channels, serverVars, sessions, conversation_history,
                    issued, session_id, transcript, response, audio_response,
                    wireVars, wait_start, frames, ended_at, health >>

\* synthesize returns b; the handler awaits websocket.send_bytes(audio_response)
SynthReturns(c, b) ==
    /\ pc[c] = "synth"
    /\ b \in AudioFor(synth_input(c))
    /\ audio_response' = [audio_response EXCEPT ![c] = b]
    /\ Goto(c, "send")
    /\ UNCHANGED << now, channels, serverVars, sessions, conversation_history,
                    issued, session_id, transcript, response, error_msg,
                    wireVars, wait_start, frames, path, ended_at, health >>

\* what send_bytes puts on the wire
sent_bytes(c) == BytesMsg(audio_response[c])

\* send_bytes completes; session_manager.update_session; next loop iteration
SendDelivered(c) ==
    /\ pc[c] = "send"
    /\ client_connected[c]
    /\ Deliver(c, sent_bytes(c))
    /\ sessions' = update_session(sessions, session_id[c], now)
    /\ AwaitFrame(c)
    /\ UNCHANGED << now, channels, serverVars, conversation_history, issued,
                    session_id, localVars, application_state, client_connected,
                    sent_after_close, frames, path, ended_at, health >>

\* send_bytes on a connection whose client has gone raises
SendRaises(c) ==
    /\ pc[c] = "send"
    /\ ~client_connected[c]
    /\ sent_after_close' = [sent_after_close EXCEPT ![c] = TRUE]
    /\ Raise(c, MsgTransport, "sendfail")
    /\ UNCHANGED << now, channels, serverVars, sessions, conversation_history,
                    issued, session_id, transcript, response, audio_response,
                    application_state, client_connected, client_rx, wait_start,
                    frames, ended_at, health >>

\* send_bytes on a connection whose client has gone is dropped by the server
SendDropped(c) ==
    /\ pc[c] = "send"
    /\ ~client_connected[c]
    /\ sent_after_close' = [sent_after_close EXCEPT ![c] = TRUE]
    /\ sessions' = update_session(sessions, session_id[c], now)
    /\ AwaitFrame(c)
    /\ UNCHANGED << now, channels, serverVars, conversation_history, issued,
                    session_id, localVars, application_state, client_connected,
                    client_rx, frames, path, ended_at, health >>


\* an error payload that hides the cause
sent_error_generic(c) == ErrorMsg("Internal server error")

\* what send_json puts on the wire: {"error": error_msg}
sent_error(c) == ErrorMsg(error_msg[c])

\* except Exception: await websocket.send_json({"error": error_msg}) completes
ErrSendDelivered(c) ==
    /\ pc[c] = "err_send"
    /\ application_state[c] = "CONNECTED"
    /\ client_connected[c]
    /\ Deliver(c, sent_error(c))
    /\ Goto(c, "err_close")
    /\ UNCHANGED << now, channels, serverVars, sessions, conversation_history,
                    issued, session_id, localVars, application_state,
                    client_connected, sent_after_close, wait_start, frames,
                    path, ended_at, health >>

\* send_json raises (a close was already sent, or the client has gone); the
\* inner "except: pass" swallows it and the finally block runs
ErrSendRaises(c) ==
    /\ pc[c] = "err_send"
    /\ application_state[c] = "DISCONNECTED" \/ ~client_connected[c]
    /\ sent_after_close' =
          [sent_after_close EXCEPT ![c] = @ \/ application_state[c] = "CONNECTED"]
    /\ Finally(c)
    /\ UNCHANGED << now, channels, serverVars, conversation_history, issued,
                    session_id, localVars, application_state, client_connected,
                    client_rx, wait_start, frames, path, health >>

\* send_json to a client that has gone is dropped by the server
ErrSendDropped(c) ==
    /\ pc[c] = "err_send"
    /\ application_state[c] = "CONNECTED"
    /\ ~client_connected[c]
    /\ sent_after_close' = [sent_after_close EXCEPT ![c] = TRUE]
    /\ Goto(c, "err_close")
    /\ UNCHANGED << now, channels, serverVars, sessions, conversation_history,
                    issued, session_id, localVars, application_state,
                    client_connected, client_rx, wait_start, frames, path,
                    ended_at, health >>

\* await websocket.close(code=WS_1011_INTERNAL_ERROR): delivered, dropped or
\* raising (swallowed by "except: pass"), the finally block runs next
ErrClose(c) ==
    /\ pc[c] = "err_close"
    /\ application_state' = [application_state EXCEPT ![c] = "DISCONNECTED"]
    /\ IF client_connected[c]
       THEN Deliver(c, CloseMsg(WS_1011_INTERNAL_ERROR))
       ELSE UNCHANGED client_rx
    /\ Finally(c)
    /\ UNCHANGED << now, channels, serverVars, conversation_history, issued,
                    session_id, localVars, client_connected, sent_after_close,
                    wait_start, frames, path, health >>

\* except asyncio.TimeoutError: await websocket.close(code=WS_1000_NORMAL_CLOSURE)
\* completes; break; the finally block runs
TimeoutClose(c) ==
    /\ pc[c] = "timeout_close"
    /\ application_state' = [application_state EXCEPT ![c] = "DISCONNECTED"]
    /\ IF client_connected[c]
       THEN Deliver(c, CloseMsg(WS_1000_NORMAL_CLOSURE))
       ELSE UNCHANGED client_rx
    /\ Finally(c)
    /\ UNCHANGED << now, channels, serverVars, conversation_history, issued,
                    session_id, localVars, client_connected, sent_after_close,
                    wait_start, frames, path, health >>

\* close(code=1000) raises inside the TimeoutError handler: the exception
\* reaches "except Exception"
TimeoutCloseRaises(c) ==
    /\ pc[c] = "timeout_close"
    /\ ~client_connected[c]
    /\ application_state' = [application_state EXCEPT ![c] = "DISCONNECTED"]
    /\ Raise(c, MsgTransport, "timeout")
    /\ UNCHANGED << now, channels, serverVars, sessions, conversation_history,
                    issued, session_id, transcript, response, audio_response,
                    client_connected, client_rx, sent_after_close, wait_start,
                    frames, ended_at, health >>

\* finally: try: await websocket.close() except: pass
FinalClose(c) ==
    /\ pc[c] = "final_close"
    /\ application_state' = [application_state EXCEPT ![c] = "DISCONNECTED"]
    /\ IF application_state[c] = "CONNECTED" /\ client_connected[c]
       THEN Deliver(c, CloseMsg(WS_1000_NORMAL_CLOSURE))
       ELSE UNCHANGED client_rx
    /\ Goto(c, "closed")
    /\ UNCHANGED << now, channels, serverVars, sessions, conversation_history,
                    issued, session_id, localVars, client_connected,
                    sent_after_close, wait_start, frames, path, ended_at,
                    health >>

\* session_manager.cleanup_inactive_sessions(max_age_minutes)
Sweep(max_age_minutes) ==
    /\ sessions' = cleanup_inactive_sessions(sessions, max_age_minutes, now)
    /\ UNCHANGED << now, channels, serverVars, conversation_history, issued, pc,
                    session_id, localVars, wireVars, wait_start, frames, path,
                    ended_at, health >>

\* GET /health
HealthCheck ==
    /\ health' = health_check(speech_is_initialized, llm_is_initialized,
                              voice_is_initialized, sessions)
    /\ UNCHANGED << now, channels, serverVars, sessions, conversation_history,
                    issued, pc, session_id, localVars, wireVars, wait_start,
                    frames, path, ended_at >>

\* what the client of /health gets when the handler raises HTTPException
HTTP_500 ==
    [status |-> "http_500", components |-> EmptyMap]

\* GET /health while a component's health_check() raises: the handler's
\* "except Exception" raises HTTPException(status_code=500)
HealthCheckRaises ==
    /\ health' = HTTP_500
    /\ UNCHANGED << now, channels, serverVars, sessions, conversation_history,
                    issued, pc, session_id, localVars, wireVars, wait_start,
                    frames, path, ended_at >>

\* SessionManager.create_session() called on its own
CreateSession ==
    /\ issued # Ids
    /\ LET id == uuid4(issued)
       IN  /\ issued' = issued \cup {id}
           /\ sessions' = create_session(sessions, id, now)
    /\ UNCHANGED << now, channels, serverVars, conversation_history, pc,
                    session_id, localVars, wireVars, wait_start, frames, path,
                    ended_at, health >>

\* SessionManager.update_session(id) called on its own, with any identifier
UpdateSession(id) ==
    /\ sessions' = update_session(sessions, id, now)
    /\ UNCHANGED << now, channels, serverVars, conversation_history, issued, pc,
                    session_id, localVars, wireVars, wait_start, frames, path,
                    ended_at, health >>

\* SessionManager.end_session(id) called on its own, with any identifier
EndSession(id) ==
    /\ sessions' = end_session(sessions, id)
    /\ ended_at' = IF id \in DOMAIN sessions /\ sessions[id].is_active
                   THEN (id :> now) @@ ended_at
                   ELSE ended_at
    /\ UNCHANGED << now, channels, serverVars, conversation_history, issued, pc,
                    session_id, localVars, wireVars, wait_start, frames, path,
                    health >>

\* the awaits of the three provider calls
ProviderCalls == {"transcribe", "generate", "synth"}

\* the message of the wrapper around the provider call the handler is at
StageMsgOf(label) ==
    CASE label = "transcribe" -> MsgSpeech
      [] label = "generate"   -> MsgLLM
      [] label = "synth"      -> MsgVoice

\* a wrapper that lets a timeout through as it is
wrapped_passes_timeout(label, exc) ==
    IF exc = "TimeoutError" THEN exc ELSE StageMsgOf(label)

\* try: await <provider call> except Exception as e: raise <StageError>(...)
\* every exception of the call, asyncio.TimeoutError included, leaves the
\* wrapper as the stage's error
wrapped(label, exc) == StageMsgOf(label)

\* the except clause of websocket_endpoint that takes an exception:
\* "except asyncio.TimeoutError" inside the loop, else "except Exception"
except_clause(exc) ==
    IF exc = "TimeoutError" THEN "timeout_close" ELSE "err_send"

\* the provider call the handler awaits raises asyncio.TimeoutError
ProviderTimesOut(c) ==
    /\ pc[c] \in ProviderCalls
    /\ LET e == wrapped(pc[c], "TimeoutError")
       IN  IF except_clause(e) = "timeout_close"
           THEN /\ Goto(c, "timeout_close")
                /\ path' = [path EXCEPT ![c] = "timeout"]
                /\ UNCHANGED error_msg
           ELSE Raise(c, e, "stage")
    /\ UNCHANGED << now, channels, serverVars, sessions, conversation_history,
                    issued, session_id, transcript, response, audio_response,
                    wireVars, wait_start, frames, ended_at, health >>

\* ------------------------------------------------------------ specification

Startup == StartupSpeech \/ StartupLLM \/ StartupVoice

\* the steps of the handler task of connection c, by the way they leave the
\* loop; limit bounds the frames accepted, and transcripts, replies and takes
\* are what the providers may return
HappyPath(c, limit, transcripts, replies, takes) ==
    \/ Accept(c)
    \/ \E nbytes \in FrameLens : frames[c] < limit /\ ReceiveFrame(c, nbytes)
    \/ \E t \in transcripts : TranscribeReturns(c, t)
    \/ \E r \in replies : GenerateReturns(c, r)
    \/ \E x \in Speakable, k \in takes : SynthReturns(c, Audio(x, k))
    \/ SendDelivered(c)

StageFailures(c) ==
    \/ TranscribeRaises(c)
    \/ GenerateRaises(c)
    \/ SynthRaises(c)

ErrorPath(c) ==
    \/ ErrSendDelivered(c)
    \/ ErrClose(c)
    \/ FinalClose(c)

TimeoutPath(c) ==
    \/ ReceiveTimeout(c)
    \/ TimeoutClose(c)

DisconnectPaths(c) ==
    \/ ClientDisconnect(c)
    \/ ReceiveDisconnect(c)
    \/ SendRaises(c)
    \/ SendDropped(c)
    \/ ErrSendRaises(c)
    \/ ErrSendDropped(c)
    \/ TimeoutCloseRaises(c)

Handler(c, limit, transcripts, replies, takes) ==
    \/ HappyPath(c, limit, transcripts, replies, takes)
    \/ StageFailures(c)
    \/ ErrorPath(c)
    \/ TimeoutPath(c)
    \/ DisconnectPaths(c)

\* every operation, on every connection
Next ==
    \/ Startup
    \/ Tick(MaxTime)
    \/ \E c \in Conns : Handler(c, MaxFrames, Transcripts, Replies, Takes)
    \/ \E m \in MaxAges : Sweep(m)
    \/ HealthCheck

Spec == Init /\ [][Next]_vars

\* one connection from accept to closed, startup included
NextPipe ==
    \/ Startup
    \/ Tick(PipeMaxTime)
    \/ Handler(1, MaxFrames, Transcripts, Replies, Takes)

SpecPipe == Init /\ [][NextPipe]_vars

FinalTranscripts == { t \in Transcripts : t.is_final }
OneReply == {"hi there"}
OneTake == {1}

\* one connection of a serving process, many exchanges
NextHistory ==
    \/ HappyPath(1, MaxExchanges, FinalTranscripts, OneReply, OneTake)
    \/ StageFailures(1)
    \/ ErrorPath(1)

SpecHistory == InitServing /\ [][NextHistory]_vars

NonFinalTranscripts == { t \in Transcripts : ~t.is_final }

\* the registry under connections that come and go, the clock and sweeps
NextRegistry ==
    \/ Tick(MaxTime)
    \/ \E c \in 1 .. RegConns :
          \/ Accept(c)
          \/ \E nbytes \in FrameLens : frames[c] < RegFrames /\ ReceiveFrame(c, nbytes)
          \/ \E t \in NonFinalTranscripts : TranscribeReturns(c, t)
          \/ TranscribeRaises(c)
          \/ ErrorPath(c)
          \/ TimeoutPath(c)
    \/ \E m \in MaxAges : Sweep(m)

SpecRegistry == InitServing /\ [][NextRegistry]_vars

\* the health endpoint while the process starts and connections come and go
NextHealth ==
    \/ Startup
    \/ HealthCheck
    \/ \E c \in Conns :
          \/ Accept(c)
          \/ ClientDisconnect(c)
          \/ ReceiveDisconnect(c)
          \/ ErrSendRaises(c)
          \/ FinalClose(c)

SpecHealth == Init /\ [][NextHealth]_vars

\* one connection of a serving process whose client goes away only while a
\* provider call is outstanding
NextCancel ==
    \/ HappyPath(1, MaxFrames, Transcripts, Replies, Takes)
    \/ StageFailures(1)
    \/ ErrorPath(1)
    \/ pc[1] \in ProviderCalls /\ ClientDisconnect(1)
    \/ SendRaises(1)
    \/ SendDropped(1)
    \/ ErrSendRaises(1)
    \/ ErrSendDropped(1)

SpecCancel == InitServing /\ [][NextCancel]_vars

\* what the user of connection c says and what the model answers: distinct per
\* connection, so that a turn shows the exchange it came from
SaidOn(c) == IF c = 1 THEN {"hello"} ELSE {"bye"}
TranscriptsOn(c) == { t \in Transcripts : t.text \in SaidOn(c) }
RepliesOn(c) == IF c = 1 THEN {"hi there"} ELSE {"ok"}

\* several connections served at the same time, for as long as it takes the
\* first receive to time out: connection 1 can leave the loop in every way, the
\* others are served normally until they go idle
NextIsolation ==
    \/ Tick(RecvTimeout)
    \/ Handler(1, IsoFrames, TranscriptsOn(1), RepliesOn(1), OneTake)
    \/ \E d \in 2 .. IsoConns :
          \/ HappyPath(d, IsoFrames, TranscriptsOn(d), RepliesOn(d), OneTake)
          \/ TimeoutPath(d)
          \/ FinalClose(d)

SpecIsolation == InitServing /\ [][NextIsolation]_vars

\* one connection that has exchanges, goes idle and is closed, and the sweep
NextReclaim ==
    \/ Tick(MaxTime)
    \/ HappyPath(1, RegFrames, FinalTranscripts, OneReply, OneTake)
    \/ TimeoutPath(1)
    \/ ErrorPath(1)
    \/ \E m \in MaxAges : Sweep(m)

SpecReclaim == InitServing /\ [][NextReclaim]_vars

\* several connections that are accepted, served, time out or fail, and the
\* sweep in between
NextActive ==
    \/ Tick(RecvTimeout)
    \/ \E c \in 1 .. ActConns :
          \/ Accept(c)
          \/ \E nbytes \in FrameLens : frames[c] < RegFrames /\ ReceiveFrame(c, nbytes)
          \/ \E t \in NonFinalTranscripts : TranscribeReturns(c, t)
          \/ TranscribeRaises(c)
          \/ ErrorPath(c)
          \/ TimeoutPath(c)
    \/ \E m \in MaxAges : Sweep(m)

SpecActive == InitServing /\ [][NextActive]_vars

\* the registry's operations called in any order with any identifier
NextRegistryOps ==
    \/ Tick(OpsTime)
    \/ CreateSession
    \/ \E id \in Ids : UpdateSession(id)
    \/ \E id \in Ids : EndSession(id)
    \/ \E m \in MaxAges : Sweep(m)

SpecRegistryOps == InitServing /\ [][NextRegistryOps]_vars

\* one connection of a serving process whose provider calls can time out
NextProviderTimeout ==
    \/ Tick(PipeMaxTime)
    \/ HappyPath(1, MaxFrames, Transcripts, Replies, Takes)
    \/ ProviderTimesOut(1)
    \/ ErrorPath(1)
    \/ TimeoutPath(1)

SpecProviderTimeout == InitServing /\ [][NextProviderTimeout]_vars

\* the health endpoint when a component's status query can fail
NextHealthFault ==
    \/ NextHealth
    \/ HealthCheckRaises

SpecHealthFault == Init /\ [][NextHealthFault]_vars


\* ------------------------------------------------------------------ claims

NumKind(rx, kind) == Cardinality({ i \in 1 .. Len(rx) : rx[i].kind = kind })
LastMsgs(rx, n) == SubSeq(rx, Len(rx) - n + 1, Len(rx))
Processing == {"transcribe", "generate", "synth", "send"}

\* parts of C1
C1_GenerationOnlyWhenFinal ==
    \A c \in Conns : pc[c] \in {"generate", "synth", "send"} => transcript[c].is_final

C1_NonFinalStep ==
    \A c \in Conns :
        ( /\ pc[c] = "transcribe"
          /\ pc'[c] \notin {"transcribe", "err_send"}
          /\ ~transcript'[c].is_final )
        => /\ pc'[c] = "recv"
           /\ client_rx'[c] = client_rx[c]
           /\ response'[c] = response[c]
           /\ audio_response'[c] = audio_response[c]
           /\ conversation_history' = conversation_history
           /\ sessions'[session_id[c]].last_activity = now
           /\ sessions'[session_id[c]].is_active

\* C1 (finality gating): generation, synthesis and the reply send are reached
\* only with a final transcript; when transcription returns a transcript that
\* is not final, the handler goes straight back to waiting for a frame, the
\* client is sent nothing, no provider result or history changes, and the
\* session's last_activity is set to the current time.
C1_FinalityGating == [](C1_GenerationOnlyWhenFinal) /\ [][C1_NonFinalStep]_vars

C1_Witness ==
    \E c \in Conns :
        /\ pc[c] = "recv"
        /\ frames[c] = 1
        /\ transcript[c] \in Transcripts
        /\ ~transcript[c].is_final
        /\ client_rx[c] = << >>
        /\ now > 0
        /\ sessions[session_id[c]].last_activity = now


\* parts of C2
C2_StageFailureClosed ==
    \A c \in Conns :
        (pc[c] = "closed" /\ path[c] = "stage")
        => /\ session_id[c] \in DOMAIN sessions
           /\ ~sessions[session_id[c]].is_active
           /\ NumKind(client_rx[c], "json") <= 1
           /\ NumKind(client_rx[c], "bytes") <= frames[c] - 1
           /\ client_connected[c]
              => /\ Len(client_rx[c]) >= 2
                 /\ LastMsgs(client_rx[c], 2) =
                       << ErrorMsg(error_msg[c]), CloseMsg(WS_1011_INTERNAL_ERROR) >>
                 /\ error_msg[c] \in StageMsgs
                 /\ NumKind(client_rx[c], "json") = 1
                 /\ NumKind(client_rx[c], "close") = 1

C2_StageNamed ==
    \A c \in Conns :
        (pc[c] # "err_send" /\ pc'[c] = "err_send" /\ path'[c] = "stage")
        => /\ pc[c] \in {"recv", "transcribe", "generate", "synth"}
           /\ pc[c] = "recv" => error_msg'[c] = MsgAudio
           /\ pc[c] = "transcribe" =>
                 \/ error_msg'[c] = MsgSpeech
                 \/ /\ error_msg'[c] = MsgLLM
                    /\ ~llm_is_initialized
                    /\ transcript'[c].is_final
           /\ pc[c] = "generate" =>
                 \/ error_msg'[c] = MsgLLM
                 \/ error_msg'[c] = MsgVoice /\ ~voice_is_initialized
           /\ pc[c] = "synth" => error_msg'[c] = MsgVoice
           /\ client_rx'[c] = client_rx[c]

\* C2 (stage-failure path): a run that left the loop through a stage failure
\* ends with its session inactive, with at most one error payload delivered and
\* with no audio reply for the failed frame; the error message is the one of the
\* stage that failed; and a client that is still there has received, last of
\* all, exactly one error payload naming a stage and then the close with code
\* 1011.
C2_StageFailure == [](C2_StageFailureClosed) /\ [][C2_StageNamed]_vars

C2_Witness ==
    \E c \in Conns :
        /\ pc[c] = "closed"
        /\ path[c] = "stage"
        /\ client_connected[c]
        /\ error_msg[c] = MsgSpeech
        /\ client_rx[c] = << ErrorMsg(MsgSpeech), CloseMsg(WS_1011_INTERNAL_ERROR) >>
        /\ ~sessions[session_id[c]].is_active

\* C3 (timeout path): on a run whose receive timed out no error payload is ever
\* delivered; when the run has closed its session is inactive, and a client
\* that is still there has received exactly one close, with code 1000, as the
\* last message.
C3_TimeoutPath ==
    \A c \in Conns :
        path[c] = "timeout"
        => /\ NumKind(client_rx[c], "json") = 0
           /\ pc[c] = "closed"
              => /\ session_id[c] \in DOMAIN sessions
                 /\ ~sessions[session_id[c]].is_active
                 /\ client_connected[c]
                    => /\ Len(client_rx[c]) >= 1
                       /\ LastMsgs(client_rx[c], 1) = << CloseMsg(WS_1000_NORMAL_CLOSURE) >>
                       /\ NumKind(client_rx[c], "close") = 1

C3_Witness ==
    \E c \in Conns :
        /\ pc[c] = "closed"
        /\ path[c] = "timeout"
        /\ client_connected[c]
        /\ client_rx[c] = << CloseMsg(WS_1000_NORMAL_CLOSURE) >>
        /\ ~sessions[session_id[c]].is_active

\* parts of C4
C4_EndedBeforeClose ==
    \A c \in Conns :
        pc[c] \in {"final_close", "closed"}
        => /\ path[c] \in {"timeout", "stage", "disconnect", "sendfail"}
           /\ session_id[c] \in DOMAIN sessions
           /\ ~sessions[session_id[c]].is_active

C4_FinalCloseStep ==
    \A c \in Conns :
        (pc[c] = "final_close" /\ pc'[c] # "final_close")
        => /\ pc'[c] = "closed"
           /\ sessions' = sessions
           /\ path'[c] = path[c]

\* C4 (teardown): whichever way a run left the loop, end_session has marked its
\* session inactive before the final close is awaited, and the final close,
\* failing or not, only takes the run to closed and changes nothing else of the
\* registry.
C4_Teardown == [](C4_EndedBeforeClose) /\ [][C4_FinalCloseStep]_vars

C4_Witness ==
    \E c \in Conns :
        /\ pc[c] = "closed"
        /\ path[c] = "sendfail"
        /\ application_state[c] = "DISCONNECTED"
        /\ ~sessions[session_id[c]].is_active

\* parts of C5
C5_SendStep ==
    \A c \in Conns :
        (pc[c] = "send" /\ pc'[c] = "recv" /\ client_connected[c])
        => /\ client_rx'[c] = Append(client_rx[c], BytesMsg(audio_response[c]))
           /\ audio_response[c] \in AudioFor(response[c])
           /\ response[c] \in Replies
           /\ transcript[c].is_final
           /\ LET h == get_history(conversation_history', session_id[c])
              IN  /\ Len(h) >= 2
                  /\ LastMsgs(h, 2) =
                        << [role |-> "user", content |-> transcript[c].text],
                           [role |-> "assistant", content |-> response[c]] >>

C5_QuietProcessing ==
    \A c \in Conns :
        (pc[c] \in {"recv", "transcribe", "generate", "synth"} /\ pc'[c] \in Processing)
        => client_rx'[c] = client_rx[c]

C5_HistoryAtSend ==
    \A c \in Conns :
        pc[c] = "send"
        => LET h == get_history(conversation_history, session_id[c])
           IN  /\ Len(h) >= 2
               /\ LastMsgs(h, 2) =
                     << [role |-> "user", content |-> transcript[c].text],
                        [role |-> "assistant", content |-> response[c]] >>

\* C5 (successful exchange): when the reply send completes to a client that is
\* there, the one message added is the binary message holding audio_response,
\* which is audio synthesized for the reply that generation returned for the
\* final transcript, and the session's history ends with the pair
\* [user: transcript text, assistant: reply]; no other step of the frame's
\* processing delivers anything.
C5_SuccessfulExchange ==
    [](C5_HistoryAtSend) /\ [][C5_SendStep /\ C5_QuietProcessing]_vars

C5_Witness ==
    \E c \in Conns :
        /\ pc[c] = "recv"
        /\ frames[c] = 1
        /\ transcript[c] = [text |-> "hello", is_final |-> TRUE]
        /\ response[c] = "hi there"
        /\ client_rx[c] = << BytesMsg(Audio("hi there", 1)) >>
        /\ get_history(conversation_history, session_id[c]) =
              << [role |-> "user", content |-> "hello"],
                 [role |-> "assistant", content |-> "hi there"] >>

\* C7 (history only after the reply was sent): at every point the session's
\* history holds no more exchanges than reply audios were sent to the client;
\* in particular not the exchange of a frame whose generation, synthesis or
\* send failed.
C7_HistoryOnlyAfterSend ==
    \A c \in Conns :
        pc[c] # "init"
        => Len(get_history(conversation_history, session_id[c]))
              <= 2 * NumKind(client_rx[c], "bytes")


\* parts of C6
Alternating(h) ==
    \A i \in 1 .. Len(h) : h[i].role = (IF i % 2 = 1 THEN "user" ELSE "assistant")

C6_Shape ==
    \A id \in DOMAIN conversation_history :
        LET h == conversation_history[id]
        IN  /\ Len(h) % 2 = 0
            /\ Len(h) <= HistoryCap
            /\ Alternating(h)

C6_DropsOldest ==
    \A c \in Conns :
        LET old == get_history(conversation_history, session_id[c])
            new == get_history(conversation_history', session_id[c])
            all == old \o << [role |-> "user", content |-> transcript[c].text],
                             [role |-> "assistant", content |-> response'[c]] >>
            returned == /\ pc[c] = "generate"
                        /\ \/ pc'[c] = "synth"
                           \/ pc'[c] = "err_send" /\ error_msg'[c] = MsgVoice
        IN  /\ returned
               => /\ Len(new) = (IF Len(old) + 2 <= HistoryCap
                                 THEN Len(old) + 2 ELSE HistoryCap)
                  /\ new = LastMsgs(all, Len(new))
            /\ (pc[c] # "init" /\ ~returned) => new = old

\* C6 (history invariant): every stored history has even length, at most
\* HistoryCap turns, alternating user and assistant turns starting with a user
\* turn; when generation returns, the history becomes the last turns of the
\* old history followed by the new exchange, so what is dropped is the oldest;
\* and no other step changes a history.
C6_HistoryInvariant == [](C6_Shape) /\ [][C6_DropsOldest]_vars

C6_Witness ==
    \E c \in Conns :
        /\ NumKind(client_rx[c], "bytes") = 6
        /\ pc[c] = "recv"
        /\ Len(get_history(conversation_history, session_id[c])) = HistoryCap
        /\ get_history(conversation_history, session_id[c])[1].content = "bye"
        /\ get_history(conversation_history, session_id[c])[3].content = "hello"


\* parts of C8
C8_IsSweep(m) ==
    /\ sessions' = cleanup_inactive_sessions(sessions, m, now)
    /\ UNCHANGED << now, channels, serverVars, conversation_history, issued, pc,
                    session_id, localVars, wireVars, wait_start, frames, path,
                    ended_at, health >>

C8_SweepStep ==
    \A m \in MaxAges :
        C8_IsSweep(m)
        => \A id \in DOMAIN sessions \cap DOMAIN ended_at :
              /\ now > ended_at[id] + m * TicksPerMinute => id \notin DOMAIN sessions'
              /\ now < ended_at[id] + m * TicksPerMinute => id \in DOMAIN sessions'

\* C8 (sweep correctness, window counted from the end): a sweep with
\* max_age_minutes = m removes every session that was ended more than m minutes
\* before it, and keeps every session that was ended less than m minutes before
\* it.
C8_SweepFromEnd == [][C8_SweepStep]_vars

\* parts of C10
C10_Result ==
    health # NoHealth
    => /\ health.status \in {"healthy", "degraded"}
       /\ DOMAIN health.components =
             {"speech_recognition", "language_model", "voice_synthesis", "sessions"}
       /\ "status" \notin DOMAIN health.components["sessions"]
       /\ health.status = "healthy"
          <=> \A k \in {"speech_recognition", "language_model", "voice_synthesis"} :
                 health.components[k].status = "healthy"

C10_CheckStep ==
    health' # health
    => /\ health'.status = "healthy"
          <=> (speech_is_initialized /\ llm_is_initialized /\ voice_is_initialized)
       /\ health'.components["language_model"].status =
             (IF llm_is_initialized THEN "healthy" ELSE "not_initialized")
       /\ health'.components["voice_synthesis"].status =
             (IF voice_is_initialized THEN "healthy" ELSE "not_initialized")
       /\ health'.components["sessions"].active_sessions =
             Cardinality({ c \in Conns : pc[c] \notin {"init", "final_close", "closed"} })

\* C10 (health verdict): a health result is "healthy" exactly when every
\* component of it that has a status field has status "healthy", and
\* "degraded" otherwise; the sessions component has no status field; and the
\* result is "healthy" exactly when the three providers were initialized when
\* it was taken.
C10_HealthVerdict == [](C10_Result) /\ [][C10_CheckStep]_vars

C10_Witness ==
    /\ health # NoHealth
    /\ health.status = "degraded"
    /\ health.components["speech_recognition"].status = "healthy"
    /\ health.components["language_model"].status = "healthy"
    /\ health.components["voice_synthesis"].status = "not_initialized"
    /\ health.components["sessions"].active_sessions = 1

\* C11 (health endpoint always returns a result): whatever happens while the
\* components are queried, what /health hands back is a result with a verdict
\* "healthy" or "degraded" and the per-component states; a failed query shows
\* as a component state under a "degraded" verdict, never as a fault of the
\* endpoint.
C11_AlwaysReturnsResult ==
    health # NoHealth
    => /\ health # HTTP_500
       /\ health.status \in {"healthy", "degraded"}
       /\ "speech_recognition" \in DOMAIN health.components

\* C12 (client disconnect during a provider call): when the client has gone
\* while transcription, generation or synthesis was outstanding, the handler
\* never attempts to send the reply audio or any other message on that
\* connection, and once the run is closed its session is inactive.
C12_DiscardedAfterDisconnect ==
    \A c \in Conns :
        /\ ~sent_after_close[c]
        /\ pc[c] = "closed"
           => /\ session_id[c] \in DOMAIN sessions
              /\ ~sessions[session_id[c]].is_active

\* parts of C13
C13_StepOf(c) ==
    \/ pc'[c] # pc[c]
    \/ client_connected'[c] # client_connected[c]

C13_Untouched(d) ==
    /\ pc'[d] = pc[d]
    /\ session_id'[d] = session_id[d]
    /\ transcript'[d] = transcript[d]
    /\ response'[d] = response[d]
    /\ audio_response'[d] = audio_response[d]
    /\ error_msg'[d] = error_msg[d]
    /\ application_state'[d] = application_state[d]
    /\ client_connected'[d] = client_connected[d]
    /\ client_rx'[d] = client_rx[d]
    /\ wait_start'[d] = wait_start[d]
    /\ path'[d] = path[d]
    /\ pc[d] # "init"
       => /\ session_id[d] \in DOMAIN sessions'
          /\ sessions'[session_id[d]] = sessions[session_id[d]]
          /\ get_history(conversation_history', session_id[d]) =
                get_history(conversation_history, session_id[d])

C13_OnlyOwnSession ==
    \A c \in Conns : \A d \in Conns \ {c} :
        C13_StepOf(c) => C13_Untouched(d)

C13_OwnTurnsOnly ==
    \A c \in Conns :
        pc[c] # "init"
        => LET h == get_history(conversation_history, session_id[c])
           IN  \A i \in 1 .. Len(h) :
                  h[i].content \in (IF h[i].role = "user" THEN SaidOn(c) ELSE RepliesOn(c))

C13_DistinctSessions ==
    \A c \in Conns : \A d \in Conns \ {c} :
        (pc[c] # "init" /\ pc[d] # "init") => session_id[c] # session_id[d]

\* C13 (session isolation): connections that are served at the same time have
\* different sessions; a step of one connection's handler or client (a stage
\* failure, a timeout and a disconnect included) leaves every other
\* connection's pipeline position, locals, wire, registry entry (active flag,
\* last activity) and history as they were; and a session's history holds only
\* turns of its own connection's exchanges.
C13_Isolation ==
    [](C13_OwnTurnsOnly /\ C13_DistinctSessions) /\ [][C13_OnlyOwnSession]_vars

C13_Witness ==
    /\ pc[1] = "closed"
    /\ path[1] = "stage"
    /\ ~sessions[session_id[1]].is_active
    /\ pc[2] = "recv"
    /\ sessions[session_id[2]].is_active
    /\ NumKind(client_rx[2], "bytes") = 1
    /\ get_history(conversation_history, session_id[2]) =
          << [role |-> "user", content |-> "bye"],
             [role |-> "assistant", content |-> "ok"] >>

\* C14 (history lifetime): every session identifier that has a stored
\* conversation history is in the registry; so once a sweep has removed a
\* session, no history is kept for it.
C14_HistoryOnlyForRegistered ==
    DOMAIN conversation_history \subseteq DOMAIN sessions

\* C15 (error payload shape): every error object delivered to a client has an
\* "error" field holding the message and a "type" field naming the error
\* category of the stage that failed.
C15_ErrorPayloadShape ==
    \A c \in Conns : \A i \in 1 .. Len(client_rx[c]) :
        client_rx[c][i].kind = "json"
        => /\ "error" \in DOMAIN client_rx[c][i]
           /\ client_rx[c][i].error = error_msg[c]
           /\ "type" \in DOMAIN client_rx[c][i]
           /\ client_rx[c][i].type \in StageErrorTypes

\* parts of C16
C16_UnknownNoOp ==
    \A id \in Ids \ DOMAIN sessions :
        /\ update_session(sessions, id, now) = sessions
        /\ end_session(sessions, id) = sessions

C16_EndIdempotent ==
    \A id \in Ids :
        /\ end_session(end_session(sessions, id), id) = end_session(sessions, id)
        /\ id \in DOMAIN sessions
           => /\ ~end_session(sessions, id)[id].is_active
              /\ DOMAIN end_session(sessions, id) = DOMAIN sessions

C16_StaysInactive ==
    \A id \in issued :
        (id \notin DOMAIN sessions \/ ~sessions[id].is_active)
        => (id \in DOMAIN sessions' => ~sessions'[id].is_active)

C16_EndedIsInactive ==
    \A id \in DOMAIN ended_at :
        id \in DOMAIN sessions => ~sessions[id].is_active

\* C16 (registry laws): in every registry the operations can produce,
\* update_session and end_session on an identifier that is not registered
\* return the registry unchanged; end_session applied twice gives what it gives
\* applied once, an entry marked inactive; and a session that was marked
\* inactive, or was removed, is never active after any further create, touch,
\* end or sweep.
C16_RegistryLaws ==
    /\ [](C16_UnknownNoOp /\ C16_EndIdempotent /\ C16_EndedIsInactive)
    /\ [][C16_StaysInactive]_vars

C16_Witness ==
    /\ issued = {1, 2}
    /\ 1 \notin DOMAIN sessions
    /\ 2 \in DOMAIN sessions
    /\ ~sessions[2].is_active
    /\ sessions[2].last_activity > ended_at[2]

\* parts of C17
C17_FailsIffMalformed ==
    \A nbytes \in FrameLens : \A writeable \in Buffers :
        process_raises(nbytes, channels, writeable)
        <=> nbytes % (SampleWidth * channels) # 0

C17_FailureStep ==
    \A c \in Conns :
        (pc[c] = "recv" /\ pc'[c] = "err_send" /\ path'[c] = "stage")
        => /\ error_msg'[c] = MsgAudio
           /\ client_rx'[c] = client_rx[c]

\* C17 (malformed audio): process fails on a frame exactly when the frame's
\* length is not a multiple of the sample width times the channel count, and
\* returns for every frame whose length is such a multiple; a frame on which it
\* fails takes the stage-failure path with the audio stage's message.
C17_MalformedAudio == [](C17_FailsIffMalformed) /\ [][C17_FailureStep]_vars

\* parts of C18
C18_OneFrameAtATime ==
    \A c \in Conns :
        /\ NumKind(client_rx[c], "bytes") <= frames[c]
        /\ pc[c] \in Processing
           => /\ frames[c] >= 1
              /\ NumKind(client_rx[c], "bytes") <= frames[c] - 1

C18_SequentialStep ==
    \A c \in Conns :
        /\ frames'[c] # frames[c]
           => /\ pc[c] = "recv"
              /\ frames'[c] = frames[c] + 1
              /\ client_rx'[c] = client_rx[c]
        /\ (pc[c] \in ProviderCalls /\ pc'[c] \in ProviderCalls /\ pc'[c] # pc[c])
           => << pc[c], pc'[c] >> \in { << "transcribe", "generate" >>,
                                        << "generate", "synth" >> }
        /\ NumKind(client_rx'[c], "bytes") # NumKind(client_rx[c], "bytes")
           => /\ pc[c] = "send"
              /\ pc'[c] = "recv"
              /\ frames'[c] = frames[c]
              /\ client_rx'[c] = Append(client_rx[c], BytesMsg(audio_response[c]))
              /\ audio_response[c] \in AudioFor(response[c])
              /\ NumKind(client_rx[c], "bytes") <= frames[c] - 1

\* C18 (strictly sequential per session): a frame is accepted only while the
\* handler waits in receive, one at a time; while a frame is being processed
\* (one provider call after the other: transcription, then generation, then
\* synthesis) every reply sent so far belongs to an earlier frame; and a reply
\* is sent only from the send of the frame in progress, after which the
\* handler is back in receive: so replies leave in the order their frames
\* were accepted.
C18_Sequential == [](C18_OneFrameAtATime) /\ [][C18_SequentialStep]_vars

C18_Witness ==
    \E c \in Conns :
        /\ pc[c] = "recv"
        /\ frames[c] = 2
        /\ client_rx[c] = << BytesMsg(Audio("hi there", 1)), BytesMsg(Audio("ok", 2)) >>
        /\ Len(get_history(conversation_history, session_id[c])) = 4
        /\ get_history(conversation_history, session_id[c])[2].content = "hi there"
        /\ get_history(conversation_history, session_id[c])[4].content = "ok"

\* parts of C19
C19_SweepFrame ==
    \A m \in MaxAges :
        C8_IsSweep(m)
        => /\ DOMAIN sessions' \subseteq DOMAIN sessions
           /\ \A id \in DOMAIN sessions \ DOMAIN sessions' : ~sessions[id].is_active
           /\ \A id \in DOMAIN sessions :
                 sessions[id].is_active => id \in DOMAIN sessions'
           /\ \A id \in DOMAIN sessions' :
                 /\ sessions'[id].created_at = sessions[id].created_at
                 /\ sessions'[id].last_activity = sessions[id].last_activity
                 /\ sessions'[id].is_active = sessions[id].is_active

C19_OnlySweepRemoves ==
    \A id \in DOMAIN sessions \ DOMAIN sessions' : ~sessions[id].is_active

\* C19 (sweep frame condition): a sweep removes only inactive sessions: every
\* active session is still registered after it, whatever its last activity,
\* and every session that is still registered has the creation time, last
\* activity and active flag it had before; no step at all removes an active
\* session.
C19_SweepKeepsActive == [][C19_SweepFrame /\ C19_OnlySweepRemoves]_vars

C19_Witness ==
    /\ now = OpsTime
    /\ issued = {1, 2}
    /\ 1 \notin DOMAIN sessions
    /\ ended_at[1] = now
    /\ 2 \in DOMAIN sessions
    /\ sessions[2] = [created_at |-> 0, last_activity |-> 0, is_active |-> TRUE]

\* parts of C20
C20_ProviderTimeoutStep ==
    \A c \in Conns :
        (pc[c] \in ProviderCalls /\ pc'[c] \notin Processing \cup {"recv"})
        => /\ pc'[c] = "err_send"
           /\ path'[c] = "stage"
           /\ error_msg'[c] = StageMsgOf(pc[c])

C20_IdleOnly ==
    \A c \in Conns :
        (pc[c] # "timeout_close" /\ pc'[c] = "timeout_close")
        => /\ pc[c] = "recv"
           /\ now - wait_start[c] >= RecvTimeout
           /\ path'[c] = "timeout"

C20_Closed ==
    \A c \in Conns :
        pc[c] = "closed"
        => /\ path[c] \in {"stage", "timeout"}
           /\ path[c] = "stage"
              => /\ Len(client_rx[c]) >= 2
                 /\ LastMsgs(client_rx[c], 2) =
                       << ErrorMsg(error_msg[c]), CloseMsg(WS_1011_INTERNAL_ERROR) >>
           /\ path[c] = "timeout"
              => /\ NumKind(client_rx[c], "json") = 0
                 /\ LastMsgs(client_rx[c], 1) = << CloseMsg(WS_1000_NORMAL_CLOSURE) >>

\* C20 (provider timeouts are stage failures): when a provider call ends in a
\* timeout the handler goes to the error path with the message of that stage,
\* and the run closes with an error payload and code 1011; the close with code
\* 1000 is reached only from the receive wait, and only when that wait has
\* lasted the receive timeout.
C20_ProviderTimeout ==
    [](C20_Closed) /\ [][C20_ProviderTimeoutStep /\ C20_IdleOnly]_vars

C20_Witness ==
    \E c \in Conns :
        /\ pc[c] = "closed"
        /\ path[c] = "stage"
        /\ now = 0
        /\ frames[c] = 2
        /\ error_msg[c] = MsgVoice
        /\ client_rx[c] = << BytesMsg(Audio("ok", 1)), ErrorMsg(MsgVoice),
                              CloseMsg(WS_1011_INTERNAL_ERROR) >>

\* parts of C21
C21_TimerRestarts ==
    \A c \in Conns :
        /\ (pc[c] # "recv" /\ pc'[c] = "recv") => wait_start'[c] = now'
        /\ (pc[c] = "recv" /\ pc'[c] = "recv") => wait_start'[c] = wait_start[c]

C21_TimeoutAfterIdleWait ==
    \A c \in Conns :
        (path[c] # "timeout" /\ path'[c] = "timeout")
        => /\ pc[c] = "recv"
           /\ frames'[c] = frames[c]
           /\ now - wait_start[c] >= RecvTimeout

C21_WaitWithinTimeout ==
    \A c \in Conns :
        pc[c] = "recv"
        => /\ wait_start[c] <= now
           /\ now - wait_start[c] <= RecvTimeout

\* C21 (pure idle timeout): the timer of a receive wait starts when the handler
\* enters that wait, at accept and after every frame, and is left alone while
\* the handler waits; the timeout path is entered only from a receive wait
\* that has lasted the receive timeout without a frame; so the age of the
\* session and the time its provider calls took never close a session whose
\* frames arrive in time.
C21_IdleTimeout ==
    [](C21_WaitWithinTimeout) /\ [][C21_TimerRestarts /\ C21_TimeoutAfterIdleWait]_vars

C21_Witness ==
    \E c \in Conns :
        /\ pc[c] = "recv"
        /\ path[c] = None
        /\ frames[c] = 2
        /\ NumKind(client_rx[c], "bytes") = 2
        /\ sessions[session_id[c]].created_at = 0
        /\ sessions[session_id[c]].is_active
        /\ now = PipeMaxTime
        /\ wait_start[c] = now

\* the state of the pipeline run of connection c: the run exists once
\* create_session has returned, it is closing from the moment the loop is left
\* until the finally clause runs, and it is closed once the finally clause has
\* ended the session (what is left is the best-effort close of the socket)
PipelineState(c) ==
    CASE pc[c] = "init" -> "NONE"
      [] pc[c] = "recv" -> "AWAITING_FRAME"
      [] pc[c] \in Processing -> "PROCESSING"
      [] pc[c] \in {"timeout_close", "err_send", "err_close"} -> "CLOSING"
      [] OTHER -> "CLOSED"

C22_Runs == { c \in Conns : PipelineState(c) \notin {"NONE", "CLOSED"} }

C22_IsActive(c) ==
    /\ session_id[c] \in DOMAIN sessions
    /\ sessions[session_id[c]].is_active

C22_CountIsRuns ==
    get_active_sessions_count(sessions) = Cardinality(C22_Runs)

C22_ActiveIffRunning ==
    /\ \A c \in Conns :
          C22_IsActive(c)
          <=> PipelineState(c) \in {"AWAITING_FRAME", "PROCESSING", "CLOSING"}
    /\ \A id \in DOMAIN sessions :
          sessions[id].is_active => \E c \in C22_Runs : session_id[c] = id

C22_SweepKeepsCount ==
    \A m \in MaxAges :
        sessions' = cleanup_inactive_sessions(sessions, m, now)
        => get_active_sessions_count(sessions') = get_active_sessions_count(sessions)

\* C22 (active count): in every reachable state the registry's active count is
\* the number of pipeline runs that have been created and have not reached
\* CLOSED, a connection's session is active exactly while its run is in
\* AWAITING_FRAME, PROCESSING or CLOSING, every active session belongs to such
\* a run, and a sweep leaves the count as it was.
C22_ActiveCount ==
    [](C22_CountIsRuns /\ C22_ActiveIffRunning) /\ [][C22_SweepKeepsCount]_vars

C22_Witness ==
    \E c, d \in Conns :
        /\ pc[c] = "closed"
        /\ session_id[c] \in issued
        /\ session_id[c] \notin DOMAIN sessions
        /\ PipelineState(d) = "CLOSING"
        /\ C22_IsActive(d)
        /\ get_active_sessions_count(sessions) = 1

====
